---- MODULE Spec2Model ----
(***************************************************************************)
(* Model of optimize_group_assignment (src/optimize.py) and of the way     *)
(* optimization_page (src/optimization.py) invokes it repeatedly on one    *)
(* uploaded roster.                                                        *)
(*                                                                         *)
(* A DataFrame is an object on a heap: a set of column names and a         *)
(* sequence of rows (functions from column names to cell values).  The     *)
(* caller's roster lives at CallerRef.  The MILP `prob` is kept as data    *)
(* (declared variables, objective coefficients, constraint records), and   *)
(* prob.solve() is evaluated over that data only.                          *)
(*                                                                         *)
(* The parameter age_distribution_weight (line 24) is never read by the     *)
(* function and is left out.  The helper variables s and t occur only in   *)
(* linking constraints; together with abs_diff_gender and abs_diff_age     *)
(* they are continuous and unbounded above, so the solver's choice of      *)
(* assign values is computed with each of them at its lower bound.         *)
(*                                                                         *)
(* Strings: 'männlich' is written "maennlich", 'Geändert' "Geaendert",     *)
(* 'Geändert von' "Geaendert von", 'Mäuse' "Maeuse"; a null cell (None /   *)
(* NaN) is the token NULL.                                                 *)
(***************************************************************************)
EXTENDS Integers, Sequences, FiniteSets, TLC

VARIABLES
    heap,               \* DataFrame objects: object id -> [cols, rows]
    group_capacities,   \* caller's dict: [keys: Seq(name), val: name -> Int]
    min_age_limits,     \* caller's dict name -> Int (empty function: None or {})
    max_age_limits,     \* caller's dict name -> Int (empty function: None or {})
    weights,            \* arguments of the current call
    pc,                 \* position inside optimize_group_assignment
    df_opt,             \* local: object id of the working DataFrame
    unassigned_indices, \* local: list of row indices with null Gruppe
    groups,             \* local: list(group_capacities.keys())
    age_classes,        \* local: df_opt['Age'].unique()
    genders,            \* local: df_opt['Geschlecht'].unique()
    lpvars,             \* declared LpVariable keys: [x, s, t, abs_diff_gender, abs_diff_age]
    prob,               \* LpProblem: [objective, constraints]
    solveCalls,         \* number of prob.solve() calls in the current invocation
    status,             \* outcome of prob.solve(): "NotSolved" | "Optimal" | "Infeasible"
    varValue,           \* x[(i, j)].varValue after solve
    outcome             \* how the invocation ended: "none" | "returned" | "ValueError"

vars == <<heap, group_capacities, min_age_limits, max_age_limits, weights, pc,
          df_opt, unassigned_indices, groups, age_classes, genders, lpvars,
          prob, solveCalls, status, varValue, outcome>>

callerVars == <<group_capacities, min_age_limits, max_age_limits>>
localVars  == <<unassigned_indices, groups, age_classes, genders>>

-----------------------------------------------------------------------------
(* Bounds of the model                                                     *)

MaxPersons == 3     \* rows of the uploaded roster

\* how far above its lower bound a helper variable of the solver is tried
GapSlack == 1

-----------------------------------------------------------------------------
(* Cell values and column names                                            *)

NULL == "NULL"

\* object ids: the DataFrame the caller passes as df, and a fresh one
CallerRef == "df"
FreshRef == "copy"
Unbound == "unbound"

required_columns == {"Gruppe", "Age", "Geschlecht", "Gesamtpunkte"}
AuditColumns == {"Geaendert", "Geaendert von"}

current_time == "now"
ModifiedBy == "Optimization algorithm"

RECURSIVE SumOver(_, _)
\* lpSum / sum of f over the finite set S
SumOver(S, f) ==
    IF S = {} THEN 0
    ELSE LET e == CHOOSE e \in S : TRUE
         IN  f[e] + SumOver(S \ {e}, f)

Max(a, b) == IF a >= b THEN a ELSE b

RECURSIVE MaxOver(_, _)
\* largest f[e] for e in S, and 0 for the empty set (lowBound=0)
MaxOver(S, f) ==
    IF S = {} THEN 0
    ELSE LET e == CHOOSE e \in S : TRUE
         IN  Max(f[e], MaxOver(S \ {e}, f))

Range(seq) == {seq[n] : n \in DOMAIN seq}

EmptyDict == [g \in {} |-> 0]

-----------------------------------------------------------------------------
(* Inputs: the uploaded roster, the group table of the settings page, the  *)
(* age limits and the weights                                              *)

GroupNames == <<"Igel", "Maeuse">>
AgeValues == {-2, 0}
CapacityValues == {1, 2}
GruppeValues == {NULL} \cup Range(GroupNames)

\* Geschlecht and Gesamtpunkte of the i-th uploaded row
GenderOf(i) == IF i % 2 = 1 THEN "maennlich" ELSE "weiblich"
PointsOf(i) == i

\* the i-th uploaded row
FullRow(i, g, a) ==
    [c \in required_columns |->
        CASE c = "Gruppe" -> g
          [] c = "Age" -> a
          [] c = "Geschlecht" -> GenderOf(i)
          [] OTHER -> PointsOf(i)]

\* the uploaded sheet has every required column or lacks one of them
ColumnChoices ==
    {required_columns} \cup {required_columns \ {c} : c \in required_columns}

Frames ==
    UNION {
        { [cols |-> cols,
           rows |-> [i \in 1..n |-> [c \in cols |-> FullRow(i, gs[i], as[i])[c]]]]
            : gs \in [1..n -> GruppeValues], as \in [1..n -> AgeValues] }
        : n \in 0..MaxPersons, cols \in ColumnChoices }

GroupConfigs ==
    UNION { { [keys |-> SubSeq(GroupNames, 1, n), val |-> v]
                : v \in [Range(SubSeq(GroupNames, 1, n)) -> CapacityValues] }
            : n \in 1..Len(GroupNames) }

\* the age limits passed: none, a MinAge for one group, or that and a
\* MaxAge for the other
LimitChoices ==
    {[min |-> EmptyDict, max |-> EmptyDict],
     [min |-> ("Igel" :> 0), max |-> EmptyDict],
     [min |-> ("Igel" :> 0), max |-> ("Maeuse" :> -2)]}

WeightConfigs ==
    [points_weight : {1},
     gender_balance_weight : {0, 1},
     age_balance_weight : {0, 1},
     abs_diff_gender_penalty : {1},
     abs_diff_age_penalty : {1}]

\* weight arguments with both balance terms switched on and the two penalty
\* scales passed too (0 is admissible)
ScaledWeightConfigs ==
    [points_weight : {1},
     gender_balance_weight : {1},
     age_balance_weight : {1},
     abs_diff_gender_penalty : {0, 1},
     abs_diff_age_penalty : {0, 1}]

NoWeights ==
    [points_weight |-> 0, gender_balance_weight |-> 0, age_balance_weight |-> 0,
     abs_diff_gender_penalty |-> 0, abs_diff_age_penalty |-> 0]

NoVars == [x |-> {}, s |-> {}, t |-> {}, abs_diff_gender |-> {}, abs_diff_age |-> {}]
NoProb == [objective |-> [x |-> <<>>, abs_diff_gender |-> <<>>, abs_diff_age |-> <<>>],
           constraints |-> {}]

\* the locals of a call that has not started
Idle ==
    /\ pc = "idle"
    /\ weights = NoWeights
    /\ df_opt = Unbound
    /\ unassigned_indices = <<>>
    /\ groups = <<>>
    /\ age_classes = {}
    /\ genders = {}
    /\ lpvars = NoVars
    /\ prob = NoProb
    /\ solveCalls = 0
    /\ status = "NotSolved"
    /\ varValue = <<>>
    /\ outcome = "none"

Init ==
    /\ \E f \in Frames : heap = (CallerRef :> f)
    /\ group_capacities \in GroupConfigs
    /\ \E l \in LimitChoices :
        /\ min_age_limits = l.min
        /\ max_age_limits = l.max
    /\ Idle

-----------------------------------------------------------------------------
(* optimize_group_assignment, step by step                                 *)

\* df.copy(): a new object with the same content
DfCopyAliased(h, r) == [heap |-> h, ref |-> r]
DfCopy(h, r) == [heap |-> (FreshRef :> h[r]) @@ h, ref |-> FreshRef]

\* line 47, entered with arguments drawn from configs
CallWith(configs) ==
    /\ pc = "idle"
    /\ \E w \in configs : weights' = w
    /\ LET c == DfCopy(heap, CallerRef)
       IN  /\ heap' = c.heap
           /\ df_opt' = c.ref
    /\ pc' = "validate"
    /\ UNCHANGED <<callerVars, localVars, lpvars, prob, solveCalls, status,
                   varValue, outcome>>

\* the call as optimization_page makes it: the penalties at their defaults
Call == CallWith(WeightConfigs)

\* the call with the penalties given as well
CallScaled == CallWith(ScaledWeightConfigs)

\* line 51: all(col in df_opt.columns for col in required_columns)
HasRequiredColumnsButPoints(cols) == (required_columns \ {"Gesamtpunkte"}) \subseteq cols
HasRequiredColumns(cols) == required_columns \subseteq cols

\* lines 50-52
Validate ==
    /\ pc = "validate"
    /\ IF HasRequiredColumns(heap[df_opt].cols)
       THEN pc' = "partition" /\ outcome' = outcome
       ELSE pc' = "done" /\ outcome' = "ValueError"
    /\ UNCHANGED <<heap, callerVars, weights, df_opt, localVars, lpvars, prob,
                   solveCalls, status, varValue>>

\* every index from row n on
AllIndices(rows, n) == [i \in 1..(Len(rows) - n + 1) |-> n + i - 1]
RECURSIVE NullIndices(_, _)
\* line 55: df_opt[df_opt['Gruppe'].isnull()].index.tolist(), from row n on
NullIndices(rows, n) ==
    IF n > Len(rows) THEN <<>>
    ELSE IF rows[n]["Gruppe"] = NULL
         THEN <<n>> \o NullIndices(rows, n + 1)
         ELSE NullIndices(rows, n + 1)

Unique(rows, c) == {rows[i][c] : i \in DOMAIN rows}

\* lines 55-60
Partition ==
    /\ pc = "partition"
    /\ unassigned_indices' = NullIndices(heap[df_opt].rows, 1)
    /\ groups' = group_capacities.keys
    /\ age_classes' = Unique(heap[df_opt].rows, "Age")
    /\ genders' = Unique(heap[df_opt].rows, "Geschlecht")
    /\ pc' = "declare"
    /\ UNCHANGED <<heap, callerVars, weights, df_opt, lpvars, prob, solveCalls,
                   status, varValue, outcome>>

\* lines 66-74: the keys of every LpVariable.dicts call
Declared(unassigned, grps, ages) ==
    [x |-> Range(unassigned) \X Range(grps),
     s |-> ages \X Range(grps),
     t |-> Range(grps),
     abs_diff_gender |-> ages \X Range(grps),
     abs_diff_age |-> Range(grps)]

\* lines 63-74: the problem and the variables
Declare ==
    /\ pc = "declare"
    /\ lpvars' = Declared(unassigned_indices, groups, age_classes)
    /\ prob' = NoProb
    /\ pc' = "objective"
    /\ UNCHANGED <<heap, callerVars, weights, df_opt, localVars, solveCalls,
                   status, varValue, outcome>>

\* lines 77-81: the coefficient of every variable of the objective; the two
\* penalty sums are subtracted
ObjectiveOf(rows, lv, w) ==
    [x |-> [key \in lv.x |-> w.points_weight * rows[key[1]]["Gesamtpunkte"]],
     abs_diff_gender |-> [key \in lv.abs_diff_gender |->
                            w.gender_balance_weight * w.abs_diff_gender_penalty],
     abs_diff_age |-> [j \in lv.abs_diff_age |->
                            w.age_balance_weight * w.abs_diff_age_penalty]]

Objective ==
    /\ pc = "objective"
    /\ prob' = [prob EXCEPT !.objective = ObjectiveOf(heap[df_opt].rows, lpvars, weights)]
    /\ pc' = "constraints"
    /\ UNCHANGED <<heap, callerVars, weights, df_opt, localVars, lpvars,
                   solveCalls, status, varValue, outcome>>

-----------------------------------------------------------------------------
(* Constraints.  A constraint is a record                                   *)
(*   [kind, var, than, plus, minus, const, sense, rhs]:                     *)
(* with var = NoVar it reads  sum(plus) - sum(minus) + const  sense  rhs    *)
(* over the assign variables; with var a helper variable it reads           *)
(* var >= sum(plus) - sum(minus), or var >= than for a linking constraint.  *)

NoVar == <<>>

Con(kind, var, than, plus, minus, const, sense, rhs) ==
    [kind |-> kind, var |-> var, than |-> than, plus |-> plus, minus |-> minus,
     const |-> const, sense |-> sense, rhs |-> rhs]

\* lines 84-85
SingleAssignmentAtLeastOne(unassigned, grps) ==
    { Con("single", NoVar, NoVar, {<<i, j>> : j \in Range(grps)}, {}, 0, ">=", 1)
        : i \in Range(unassigned) }
SingleAssignmentAtMostOne(unassigned, grps) ==
    { Con("single", NoVar, NoVar, {<<i, j>> : j \in Range(grps)}, {}, 0, "<=", 1)
        : i \in Range(unassigned) }
SingleAssignment(unassigned, grps) ==
    { Con("single", NoVar, NoVar, {<<i, j>> : j \in Range(grps)}, {}, 0, "==", 1)
        : i \in Range(unassigned) }

\* line 89: df_opt[df_opt['Gruppe'] == j].shape[0]
assigned_in_group(rows, j) == Cardinality({i \in DOMAIN rows : rows[i]["Gruppe"] = j})

\* lines 88-90
Capacity(rows, unassigned, grps, caps) ==
    { Con("capacity", NoVar, NoVar, {<<i, j>> : i \in Range(unassigned)}, {},
          assigned_in_group(rows, j), "<=", caps.val[j])
        : j \in Range(grps) }

\* the x[(i, j)] of the unassigned rows with the given Geschlecht and Age
GenderAgeKeys(rows, unassigned, j, g, k) ==
    {<<i, j>> : i \in {u \in Range(unassigned) :
                        rows[u]["Geschlecht"] = g /\ rows[u]["Age"] = k}}

\* lines 93-102
GenderBalanceOneSided(rows, unassigned, grps, ages, w) ==
    IF w.gender_balance_weight > 0
    THEN UNION { LET male_count == GenderAgeKeys(rows, unassigned, kj[2], "maennlich", kj[1])
                     female_count == GenderAgeKeys(rows, unassigned, kj[2], "weiblich", kj[1])
                     gap == <<"abs_diff_gender", kj[1], kj[2]>>
                 IN  { Con("gender", gap, NoVar, male_count, female_count, 0, ">=", 0),
                       Con("link", <<"s", kj[1], kj[2]>>, gap, {}, {}, 0, ">=", 0) }
               : kj \in ages \X Range(grps) }
    ELSE {}

GenderBalance(rows, unassigned, grps, ages, w) ==
    IF w.gender_balance_weight > 0
    THEN UNION { LET male_count == GenderAgeKeys(rows, unassigned, kj[2], "maennlich", kj[1])
                     female_count == GenderAgeKeys(rows, unassigned, kj[2], "weiblich", kj[1])
                     gap == <<"abs_diff_gender", kj[1], kj[2]>>
                 IN  { Con("gender", gap, NoVar, male_count, female_count, 0, ">=", 0),
                       Con("gender", gap, NoVar, female_count, male_count, 0, ">=", 0),
                       Con("link", <<"s", kj[1], kj[2]>>, gap, {}, {}, 0, ">=", 0) }
               : kj \in ages \X Range(grps) }
    ELSE {}

\* lines 105-114
AgeBalanceFreeAges(rows, unassigned, grps, ages, w) ==
    IF w.age_balance_weight > 0
    THEN UNION { LET total_count == {<<i, kj[2]>> : i \in Range(unassigned)}
                     age_count == {<<i, kj[2]>> : i \in {u \in Range(unassigned) :
                                                        rows[u]["Age"] = kj[1]}}
                     gap == <<"abs_diff_age", kj[2]>>
                 IN  { Con("age", gap, NoVar, age_count, total_count, 0, ">=", 0),
                       Con("age", gap, NoVar, total_count, age_count, 0, ">=", 0),
                       Con("link", <<"t", kj[2]>>, gap, {}, {}, 0, ">=", 0) }
               : kj \in {rows[u]["Age"] : u \in Range(unassigned)} \X Range(grps) }
    ELSE {}

AgeBalance(rows, unassigned, grps, ages, w) ==
    IF w.age_balance_weight > 0
    THEN UNION { LET total_count == {<<i, kj[2]>> : i \in Range(unassigned)}
                     age_count == {<<i, kj[2]>> : i \in {u \in Range(unassigned) :
                                                        rows[u]["Age"] = kj[1]}}
                     gap == <<"abs_diff_age", kj[2]>>
                 IN  { Con("age", gap, NoVar, age_count, total_count, 0, ">=", 0),
                       Con("age", gap, NoVar, total_count, age_count, 0, ">=", 0),
                       Con("link", <<"t", kj[2]>>, gap, {}, {}, 0, ">=", 0) }
               : kj \in ages \X Range(grps) }
    ELSE {}

\* lines 117-121; an empty dict and None are both falsy
MinAge(rows, unassigned, grps, limits) ==
    { Con("min_age", NoVar, NoVar,
          {<<i, j>> : i \in {u \in Range(unassigned) : rows[u]["Age"] < limits[j]}},
          {}, 0, "==", 0)
        : j \in Range(grps) \cap DOMAIN limits }

\* lines 123-127
MaxAge(rows, unassigned, grps, limits) ==
    { Con("max_age", NoVar, NoVar,
          {<<i, j>> : i \in {u \in Range(unassigned) : rows[u]["Age"] > limits[j]}},
          {}, 0, "==", 0)
        : j \in Range(grps) \cap DOMAIN limits }

\* every constraint lines 83-127 add to prob
ConstraintsOf(rows, unassigned, grps, ages, caps, minl, maxl, w) ==
    SingleAssignment(unassigned, grps)
    \cup Capacity(rows, unassigned, grps, caps)
    \cup GenderBalance(rows, unassigned, grps, ages, w)
    \cup AgeBalance(rows, unassigned, grps, ages, w)
    \cup MinAge(rows, unassigned, grps, minl)
    \cup MaxAge(rows, unassigned, grps, maxl)

\* lines 83-127
Constraints ==
    /\ pc = "constraints"
    /\ prob' = [prob EXCEPT !.constraints =
                    prob.constraints \cup
                    ConstraintsOf(heap[df_opt].rows, unassigned_indices, groups,
                                  age_classes, group_capacities, min_age_limits,
                                  max_age_limits, weights)]
    /\ pc' = "solve"
    /\ UNCHANGED <<heap, callerVars, weights, df_opt, localVars, lpvars,
                   solveCalls, status, varValue, outcome>>

-----------------------------------------------------------------------------
(* prob.solve(): the solver sees only the declared variables, the          *)
(* objective and the constraints                                           *)

\* value of the linear expression of c at the assign values xv
Lin(c, xv) ==
    SumOver(c.plus, xv) - SumOver(c.minus, xv) + c.const

Holds(c, xv) ==
    CASE c.sense = "==" -> Lin(c, xv) = c.rhs
      [] c.sense = "<=" -> Lin(c, xv) <= c.rhs
      [] OTHER -> Lin(c, xv) >= c.rhs

\* the constraints over the assign variables alone
HardConstraints(p) == {c \in p.constraints : c.var = NoVar}

\* every 0/1 valuation of the assign variables that meets them; the helper
\* variables are continuous with no upper bound, so their constraints can
\* always be met and exclude no valuation
FeasibleSet(p, lv) ==
    {xv \in [lv.x -> {0, 1}] : \A c \in HardConstraints(p) : Holds(c, xv)}

\* least value the constraints (and lowBound=0) allow the helper variable
HelperLowerBound(p, var, xv) ==
    LET cs == {c \in p.constraints : c.var = var /\ c.than = NoVar}
    IN  MaxOver(cs, [c \in cs |-> Lin(c, xv)])

\* points term of the objective at xv
PointsTerm(p, lv, xv) ==
    SumOver(lv.x, [key \in lv.x |-> p.objective.x[key] * xv[key]])

\* the objective at xv with every helper variable at its lower bound; the
\* helper coefficients are never positive, so this is the best value xv allows
ObjectiveValue(p, lv, xv) ==
    PointsTerm(p, lv, xv)
    - SumOver(lv.abs_diff_gender,
              [key \in lv.abs_diff_gender |->
                  p.objective.abs_diff_gender[key]
                    * HelperLowerBound(p, <<"abs_diff_gender", key[1], key[2]>>, xv)])
    - SumOver(lv.abs_diff_age,
              [j \in lv.abs_diff_age |->
                  p.objective.abs_diff_age[j]
                    * HelperLowerBound(p, <<"abs_diff_age", j>>, xv)])

OptimalSet(p, lv) ==
    LET F == FeasibleSet(p, lv)
        val == [xv \in F |-> ObjectiveValue(p, lv, xv)]
    IN  {xv \in F : \A yv \in F : val[yv] <= val[xv]}

\* the LpVariable behind a key of abs_diff_gender or abs_diff_age
HelperVar(name, key) ==
    IF name = "abs_diff_gender" THEN <<name, key[1], key[2]>> ELSE <<name, key>>

\* Values of the helper variables of one family at xv.  Each is continuous
\* and bounded below only, by lowBound=0 and its constraints; the values
\* tried are the bound plus each of the amounts in above.
HelperValues(p, name, keys, xv, above) ==
    LET low == [key \in keys |-> HelperLowerBound(p, HelperVar(name, key), xv)]
    IN  { [key \in keys |-> low[key] + up[key]] : up \in [keys -> above] }

\* Solutions with the values of abs_diff_gender and abs_diff_age written
\* out.  s and t are left out: they occur in no objective and are bounded
\* below only (s >= abs_diff_gender, t >= abs_diff_age), so every solution
\* extends to them.
Solutions(p, lv, gender_above, age_above) ==
    UNION { [x : {xv},
             abs_diff_gender : HelperValues(p, "abs_diff_gender", lv.abs_diff_gender,
                                            xv, gender_above),
             abs_diff_age : HelperValues(p, "abs_diff_age", lv.abs_diff_age,
                                         xv, age_above)]
            : xv \in FeasibleSet(p, lv) }

\* lines 77-81 at a solution
SolutionValue(p, lv, sol) ==
    PointsTerm(p, lv, sol.x)
    - SumOver(lv.abs_diff_gender,
              [key \in lv.abs_diff_gender |->
                  p.objective.abs_diff_gender[key] * sol.abs_diff_gender[key]])
    - SumOver(lv.abs_diff_age,
              [j \in lv.abs_diff_age |->
                  p.objective.abs_diff_age[j] * sol.abs_diff_age[j]])

\* LpMaximize: the solutions no other solution beats
OptimalSolutions(p, lv, gender_above, age_above) ==
    LET S == Solutions(p, lv, gender_above, age_above)
        val == [sol \in S |-> SolutionValue(p, lv, sol)]
        values == {val[sol] : sol \in S}
    IN  {sol \in S : \A v \in values : v <= val[sol]}

\* The optimal solutions with abs_diff_gender tried up to GapSlack above its
\* bound.  abs_diff_age is held at its bound, which costs least: these are
\* optimal among all solutions, and every optimal valuation of x and
\* abs_diff_gender is among them.
GenderOptima(p, lv) == OptimalSolutions(p, lv, 0..GapSlack, {0})

\* the same with abs_diff_age tried and abs_diff_gender held at its bound
AgeOptima(p, lv) == OptimalSolutions(p, lv, {0}, 0..GapSlack)

\* line 130.  The status is not looked at by the caller.  For an infeasible
\* problem the values left in the variables are unspecified; whatever is
\* left that is not 1 (None, 0, a fraction) is read by line 136 like 0.
Solve ==
    /\ pc = "solve"
    /\ solveCalls' = solveCalls + 1
    /\ LET opt == OptimalSet(prob, lpvars)
       IN  IF opt # {}
           THEN /\ status' = "Optimal"
                /\ varValue' \in opt
           ELSE /\ status' = "Infeasible"
                /\ varValue' \in [lpvars.x -> {0, 1}]
    /\ pc' = "update"
    /\ UNCHANGED <<heap, callerVars, weights, df_opt, localVars, lpvars, prob,
                   outcome>>

-----------------------------------------------------------------------------
(* Writing the result                                                      *)

\* positions in grps of the groups whose variable for row i reads 1
Ones(grps, vals, i) == {n \in DOMAIN grps : vals[<<i, grps[n]>>] = 1}

\* the group the inner loop leaves in row i: the last one that reads 1
LastOne(grps, vals, i) ==
    LET ones == Ones(grps, vals, i)
    IN  grps[CHOOSE n \in ones : \A m \in ones : m <= n]

\* lines 133-139
UpdateStampingAll(f, unassigned, grps, vals) ==
    [cols |-> f.cols \cup AuditColumns,
     rows |-> [i \in DOMAIN f.rows |->
                [c \in f.cols \cup AuditColumns |->
                    CASE c = "Gruppe" /\ i \in Range(unassigned)
                                      /\ Ones(grps, vals, i) # {}
                            -> LastOne(grps, vals, i)
                      [] c = "Geaendert" -> current_time
                      [] c = "Geaendert von" -> ModifiedBy
                      [] OTHER -> f.rows[i][c]]]]
Update(f, unassigned, grps, vals) ==
    LET written == {i \in Range(unassigned) : Ones(grps, vals, i) # {}}
        cols == IF written = {} THEN f.cols ELSE f.cols \cup AuditColumns
    IN  [cols |-> cols,
         rows |-> [i \in DOMAIN f.rows |->
                    [c \in cols |->
                        IF i \in written
                        THEN CASE c = "Gruppe" -> LastOne(grps, vals, i)
                               [] c = "Geaendert" -> current_time
                               [] c = "Geaendert von" -> ModifiedBy
                               [] OTHER -> f.rows[i][c]
                        ELSE IF c \in f.cols THEN f.rows[i][c] ELSE NULL]]]

UpdateResults ==
    /\ pc = "update"
    /\ heap' = [heap EXCEPT ![df_opt] = Update(heap[df_opt], unassigned_indices,
                                               groups, varValue)]
    /\ pc' = "return"
    /\ UNCHANGED <<callerVars, weights, df_opt, localVars, lpvars, prob,
                   solveCalls, status, varValue, outcome>>

\* line 141
Return ==
    /\ pc = "return"
    /\ outcome' = "returned"
    /\ pc' = "done"
    /\ UNCHANGED <<heap, callerVars, weights, df_opt, localVars, lpvars, prob,
                   solveCalls, status, varValue>>

\* optimization_page: the result (or the exception) of one column is used up
\* and the next call is made with the same df and groups
NextInvocation ==
    /\ pc = "done"
    /\ heap' = (CallerRef :> heap[CallerRef])
    /\ pc' = "idle"
    /\ weights' = NoWeights
    /\ df_opt' = Unbound
    /\ unassigned_indices' = <<>>
    /\ groups' = <<>>
    /\ age_classes' = {}
    /\ genders' = {}
    /\ lpvars' = NoVars
    /\ prob' = NoProb
    /\ solveCalls' = 0
    /\ status' = "NotSolved"
    /\ varValue' = <<>>
    /\ outcome' = "none"
    /\ UNCHANGED callerVars

Next ==
    \/ Call
    \/ Validate
    \/ Partition
    \/ Declare
    \/ Objective
    \/ Constraints
    \/ Solve
    \/ UpdateResults
    \/ Return
    \/ NextInvocation

Spec == Init /\ [][Next]_vars

\* the calls on rosters that pass validation, with no age limits given (as
\* optimization_page calls)
InitPage ==
    /\ Init
    /\ required_columns \subseteq heap[CallerRef].cols
    /\ min_age_limits = EmptyDict
    /\ max_age_limits = EmptyDict

SpecPage == InitPage /\ [][Next]_vars

\* the same calls with the penalty scales passed as arguments
NextScaled ==
    \/ CallScaled
    \/ Validate
    \/ Partition
    \/ Declare
    \/ Objective
    \/ Constraints
    \/ Solve
    \/ UpdateResults
    \/ Return
    \/ NextInvocation

SpecScaled == InitPage /\ [][NextScaled]_vars

-----------------------------------------------------------------------------
(* What the claims speak about                                             *)

Input == heap[CallerRef]
Result == heap[df_opt]

\* rows of the caller's roster with a null Gruppe, and the others
FreeRows == {i \in DOMAIN Input.rows : Input.rows[i]["Gruppe"] = NULL}
FixedRows == DOMAIN Input.rows \ FreeRows

GroupKeys == Range(group_capacities.keys)

Occupancy(rows, j) == Cardinality({i \in DOMAIN rows : rows[i]["Gruppe"] = j})

\* row i of the result carries the stamp of this invocation
Stamped(i) ==
    /\ AuditColumns \subseteq Result.cols
    /\ Result.rows[i]["Geaendert"] = current_time
    /\ Result.rows[i]["Geaendert von"] = ModifiedBy

\* row i of the result carries no audit value at all
Unstamped(i) ==
    \A c \in AuditColumns \cap Result.cols : Result.rows[i][c] = NULL

\* group j admits age a under the caller's limits (bounds inclusive)
Eligible(a, j) ==
    /\ (j \in DOMAIN min_age_limits => a >= min_age_limits[j])
    /\ (j \in DOMAIN max_age_limits => a <= max_age_limits[j])

Built == pc \in {"solve", "update", "return"} \/ (pc = "done" /\ outcome = "returned")

-----------------------------------------------------------------------------
\* C1: whenever the model is feasible, every row whose Gruppe was null in the
\* input has in the returned roster exactly one group, a key of
\* group_capacities: exactly one of its assign variables reads 1 and that
\* group is the one written.
C1_FreeAssignedExactlyOnce ==
    (outcome = "returned" /\ status = "Optimal") =>
        \A i \in FreeRows :
            /\ Result.rows[i]["Gruppe"] \in GroupKeys
            /\ \E j \in GroupKeys :
                /\ varValue[<<i, j>>] = 1
                /\ Result.rows[i]["Gruppe"] = j
                /\ \A j2 \in GroupKeys \ {j} : varValue[<<i, j2>>] = 0

C1_Witness ==
    /\ outcome = "returned"
    /\ status = "Optimal"
    /\ Cardinality(FreeRows) >= 2
    /\ Cardinality(GroupKeys) = 2
    /\ \E i, k \in FreeRows : Result.rows[i]["Gruppe"] # Result.rows[k]["Gruppe"]

\* C2: in every returned roster no group holds more rows than its capacity.
C2_ReturnedWithinCapacity ==
    outcome = "returned" =>
        \A j \in GroupKeys : Occupancy(Result.rows, j) <= group_capacities.val[j]

\* C3: no returned roster has a row placed by the call in a group whose
\* MinAge is above or whose MaxAge is below the row's Age.
C3_ReturnedAgeEligible ==
    outcome = "returned" =>
        \A i \in FreeRows : \A j \in GroupKeys :
            Result.rows[i]["Gruppe"] = j => Eligible(Input.rows[i]["Age"], j)

\* C4: when no valuation meets the hard constraints the call reports it and
\* returns no roster.
C4_InfeasibleNeverReturns ==
    (Built /\ FeasibleSet(prob, lpvars) = {}) => outcome # "returned"

\* C5 as claimed: with no free row the model is always feasible and the
\* returned roster equals the input, no audit column added.
C5_ZeroFreeAlwaysFeasible ==
    (outcome = "returned" /\ FreeRows = {}) =>
        /\ status = "Optimal"
        /\ FeasibleSet(prob, lpvars) # {}
        /\ Result = Input

\* C5 as amended: with no free row the returned roster equals the input
\* (same columns, same rows, no audit column added) under every group and
\* weight configuration; the model is feasible exactly when no group's fixed
\* occupants exceed its capacity.
C5_ZeroFreeUnchanged ==
    (outcome = "returned" /\ FreeRows = {}) =>
        /\ Result = Input
        /\ Result.cols \cap AuditColumns = {}
        /\ lpvars.x = {}
        /\ (FeasibleSet(prob, lpvars) # {}
                <=> \A j \in GroupKeys :
                        Occupancy(Input.rows, j) <= group_capacities.val[j])

C5_Witness ==
    /\ outcome = "returned"
    /\ FreeRows = {}
    /\ Len(Input.rows) = MaxPersons
    /\ \E j \in GroupKeys : Occupancy(Input.rows, j) > group_capacities.val[j]
    /\ status = "Infeasible"
    /\ weights.gender_balance_weight > 0

\* C6: no step of a call changes the caller's roster or the caller's group
\* capacities and age limits, however the call ends.
C6_CallerInputsUntouched ==
    [][/\ heap'[CallerRef] = heap[CallerRef]
       /\ group_capacities' = group_capacities
       /\ min_age_limits' = min_age_limits
       /\ max_age_limits' = max_age_limits]_vars

C6_Witness ==
    /\ outcome = "returned"
    /\ Result # Input
    /\ \E i \in FreeRows : Result.rows[i]["Gruppe"] # NULL

\* C7: in the returned roster the rows are those of the input in the same
\* order; a fixed row keeps every input cell and gets no stamp; a free row
\* keeps every cell but Gruppe, and it carries the stamp (current time,
\* 'Optimization algorithm') exactly when this call filled its Gruppe.
C7_OnlyFilledRowsStamped ==
    outcome = "returned" =>
        /\ DOMAIN Result.rows = DOMAIN Input.rows
        /\ Input.cols \subseteq Result.cols
        /\ \A i \in FixedRows :
            /\ \A c \in Input.cols : Result.rows[i][c] = Input.rows[i][c]
            /\ Unstamped(i)
        /\ \A i \in FreeRows :
            /\ \A c \in Input.cols \ {"Gruppe"} : Result.rows[i][c] = Input.rows[i][c]
            /\ IF Result.rows[i]["Gruppe"] # NULL THEN Stamped(i) ELSE Unstamped(i)

C7_Witness ==
    /\ outcome = "returned"
    /\ \E i \in FixedRows, k \in FreeRows :
        /\ i < k
        /\ Stamped(k)
        /\ Unstamped(i)
        /\ Result.rows[i]["Gruppe"] = Input.rows[i]["Gruppe"]
    /\ \E i \in FixedRows, k \in FreeRows : k < i /\ Stamped(k)

\* the variables and the problem the call builds (lines 55-127) for a roster
\* with the given rows under the weights w and the caller's groups and limits
ModelOf(rows, w) ==
    LET un == NullIndices(rows, 1)
        grps == group_capacities.keys
        ages == Unique(rows, "Age")
        lv == Declared(un, grps, ages)
    IN  [lv |-> lv,
         p |-> [objective |-> ObjectiveOf(rows, lv, w),
                constraints |-> ConstraintsOf(rows, un, grps, ages, group_capacities,
                                              min_age_limits, max_age_limits, w)]]

\* the rows with the Geschlecht cells of the free rows permuted by pi
GenderPermuted(rows, pi) ==
    [i \in DOMAIN rows |->
        IF i \in DOMAIN pi
        THEN [rows[i] EXCEPT !["Geschlecht"] = rows[pi[i]]["Geschlecht"]]
        ELSE rows[i]]

\* the values the call can leave in the assign variables for these rows
Returnable(rows, w) ==
    LET m == ModelOf(rows, w)
    IN  IF FeasibleSet(m.p, m.lv) # {} THEN OptimalSet(m.p, m.lv)
        ELSE [m.lv.x -> {0, 1}]

\* the second half of C8 on its own: with gender_balance_weight = 0 the
\* returnable assignments do not change when Geschlecht is permuted among
\* the free rows
GenderBlindAtZeroWeight ==
    (pc = "solve" /\ weights.gender_balance_weight = 0) =>
        \A pi \in Permutations(FreeRows) :
            Returnable(GenderPermuted(Input.rows, pi), weights)
                = Returnable(Input.rows, weights)

\* C8: with gender_balance_weight = 0 no gender-gap helper variable is
\* generated, no gender-gap constraint is generated, and the returnable
\* assignments do not change when Geschlecht is permuted among the free rows.
C8_NoGenderGapModel ==
    (Built /\ weights.gender_balance_weight = 0) =>
        /\ lpvars.abs_diff_gender = {}
        /\ \A c \in prob.constraints : c.kind # "gender"
        /\ \A pi \in Permutations(FreeRows) :
            Returnable(GenderPermuted(Input.rows, pi), weights)
                = Returnable(Input.rows, weights)

-----------------------------------------------------------------------------
\* the rows with the Gesamtpunkte cells replaced by pts
WithPoints(rows, pts) ==
    [i \in DOMAIN rows |->
        IF i \in DOMAIN pts THEN [rows[i] EXCEPT !["Gesamtpunkte"] = pts[i]]
        ELSE rows[i]]

AltPointValues == {0, 3}
AltPointsWeights == {0, 2}

\* other points weights with the points as uploaded, and other points with
\* the largest other weight
AltPointConfigs(rows) ==
    {[pw |-> pw, pts |-> [i \in FreeRows |-> rows[i]["Gesamtpunkte"]]]
        : pw \in AltPointsWeights}
    \cup {[pw |-> 2, pts |-> pts] : pts \in [FreeRows -> AltPointValues]}

\* C9: on every feasible valuation the points term equals
\* points_weight * (sum of the free rows' points); the optimal valuations are
\* the same for every other points_weight and every other choice of points;
\* with both balance weights 0 every feasible valuation is optimal.
C9_PointsTermInert ==
    pc = "solve" =>
        LET rows == Input.rows
            F == FeasibleSet(prob, lpvars)
            Opt == OptimalSet(prob, lpvars)
        IN  /\ \A xv \in F :
                PointsTerm(prob, lpvars, xv)
                    = weights.points_weight
                        * SumOver(FreeRows, [i \in FreeRows |-> rows[i]["Gesamtpunkte"]])
            /\ \A alt \in AltPointConfigs(rows) :
                LET m == ModelOf(WithPoints(rows, alt.pts),
                                 [weights EXCEPT !.points_weight = alt.pw])
                IN  /\ OptimalSet(m.p, m.lv) = Opt
                    /\ \A xv \in FeasibleSet(m.p, m.lv) :
                        PointsTerm(m.p, m.lv, xv)
                            = alt.pw * SumOver(FreeRows, alt.pts)
            /\ (weights.gender_balance_weight = 0 /\ weights.age_balance_weight = 0)
                    => Opt = F

\* two free persons, two groups of capacity 1: both placements are optimal
C9_Witness ==
    /\ pc = "solve"
    /\ Cardinality(FreeRows) = 2
    /\ FixedRows = {}
    /\ Cardinality(GroupKeys) = 2
    /\ \A j \in GroupKeys : group_capacities.val[j] = 1
    /\ DOMAIN min_age_limits = {} /\ DOMAIN max_age_limits = {}
    /\ weights.gender_balance_weight = 0 /\ weights.age_balance_weight = 0
    /\ Cardinality(OptimalSet(prob, lpvars)) = 2

-----------------------------------------------------------------------------
\* C10: a roster lacking a required column ends in the validation error with
\* no variable declared, no problem built, no solve and no roster returned;
\* otherwise the solver runs at most once, exactly once before a roster is
\* returned, with every constraint already in the problem and with nothing
\* yet written to the working roster.
C10_ValidateThenSolveOnce ==
    /\ ~(required_columns \subseteq Input.cols) =>
        /\ pc \in {"idle", "validate", "done"}
        /\ pc = "done" => outcome = "ValueError"
        /\ outcome # "returned"
        /\ lpvars = NoVars
        /\ prob = NoProb
        /\ solveCalls = 0
        /\ df_opt # Unbound => Result = Input
    /\ required_columns \subseteq Input.cols =>
        /\ outcome # "ValueError"
        /\ solveCalls \in {0, 1}
        /\ solveCalls = 1 <=> pc \in {"update", "return", "done"}
        /\ outcome = "returned" => solveCalls = 1
        /\ (solveCalls = 0 /\ df_opt # Unbound) => Result = Input
        /\ pc = "solve" =>
            /\ Result = Input
            /\ lpvars = ModelOf(Input.rows, weights).lv
            /\ prob = ModelOf(Input.rows, weights).p

C10_Witness ==
    /\ outcome = "ValueError"
    /\ "Gesamtpunkte" \notin Input.cols
    /\ Len(Input.rows) = MaxPersons
    /\ \A i \in DOMAIN Input.rows : Input.rows[i]["Gruppe"] = NULL


----------------------------------------------------------------------------
\* Gaps of the optimal solutions

\* the age values of the whole roster, fixed and free persons alike
RosterAges == {Input.rows[i]["Age"] : i \in DOMAIN Input.rows}

\* free persons of age k and Geschlecht g that the solution puts into group j
GenderCount(sol, g, k, j) ==
    Cardinality({i \in FreeRows : /\ Input.rows[i]["Age"] = k
                                  /\ Input.rows[i]["Geschlecht"] = g
                                  /\ sol.x[<<i, j>>] = 1})

Abs(n) == IF n < 0 THEN -n ELSE n

\* abs_diff_gender is the absolute difference everywhere in the solution
GenderGapsTight(sol) ==
    \A k \in RosterAges, j \in GroupKeys :
        sol.abs_diff_gender[<<k, j>>]
          = Abs(GenderCount(sol, "maennlich", k, j) - GenderCount(sol, "weiblich", k, j))

\* C11 as stated: with a positive gender_balance_weight, whatever the
\* penalty scale (0 included), every optimal solution has abs_diff_gender[k, j]
\* equal to |male count - female count| for every roster age k and group j.
C11_GenderGapTightAnyScale ==
    (pc = "solve" /\ weights.gender_balance_weight > 0)
        => \A sol \in GenderOptima(prob, lpvars) : GenderGapsTight(sol)

\* C11 amended: with a positive gender_balance_weight and a positive
\* abs_diff_gender_penalty, every optimal solution has abs_diff_gender[k, j]
\* equal to |male count - female count| for every roster age k and group j.
C11_GenderGapTightPositiveScale ==
    (/\ pc = "solve"
     /\ weights.gender_balance_weight > 0
     /\ weights.abs_diff_gender_penalty > 0)
        => \A sol \in GenderOptima(prob, lpvars) : GenderGapsTight(sol)

\* an optimum where some group takes more girls than boys of one age and the
\* gap is that difference
C11_Witness ==
    /\ pc = "solve"
    /\ weights.gender_balance_weight > 0
    /\ weights.abs_diff_gender_penalty > 0
    /\ \E sol \in GenderOptima(prob, lpvars) :
        \E k \in RosterAges, j \in GroupKeys :
            /\ GenderCount(sol, "weiblich", k, j) > GenderCount(sol, "maennlich", k, j)
            /\ sol.abs_diff_gender[<<k, j>>]
                 = GenderCount(sol, "weiblich", k, j) - GenderCount(sol, "maennlich", k, j)

\* free persons the solution puts into group j
TotalCount(sol, j) == Cardinality({i \in FreeRows : sol.x[<<i, j>>] = 1})

\* those of them of age k
AgeCount(sol, k, j) ==
    Cardinality({i \in FreeRows : Input.rows[i]["Age"] = k /\ sol.x[<<i, j>>] = 1})

\* v is the largest of total - age count over the ages of the roster
IsLargestAgeGap(sol, j, v) ==
    /\ \E k \in RosterAges : v = TotalCount(sol, j) - AgeCount(sol, k, j)
    /\ \A k \in RosterAges : v >= TotalCount(sol, j) - AgeCount(sol, k, j)

\* some age of the roster is the age of no free person
SomeAgeWithoutFree ==
    \E k \in RosterAges : \A i \in FreeRows : Input.rows[i]["Age"] # k

\* sum of abs_diff_age over the groups
AgePenalty(sol) ==
    SumOver(GroupKeys, [j \in GroupKeys |-> sol.abs_diff_age[j]])

\* C12: with a positive age_balance_weight and a positive abs_diff_age_penalty,
\* every optimal solution has, for every group j, abs_diff_age[j] equal to the
\* largest total_j - ageCount[k, j] over the ages k of the whole roster (counts
\* of free persons put into j); and when some age of the roster has no free
\* person, abs_diff_age[j] = total_j for every j, and on every feasible
\* assignment the least sum of abs_diff_age is the number of free persons.
C12_AgeGapIsLargestShortfall ==
    (/\ pc = "solve"
     /\ weights.age_balance_weight > 0
     /\ weights.abs_diff_age_penalty > 0
     /\ RosterAges # {})
        => /\ \A sol \in AgeOptima(prob, lpvars) :
                \A j \in GroupKeys : IsLargestAgeGap(sol, j, sol.abs_diff_age[j])
           /\ SomeAgeWithoutFree
                => /\ \A sol \in AgeOptima(prob, lpvars) :
                        \A j \in GroupKeys : sol.abs_diff_age[j] = TotalCount(sol, j)
                   /\ \A sol \in Solutions(prob, lpvars, {0}, {0}) :
                        AgePenalty(sol) = Cardinality(FreeRows)
                   /\ \A sol \in Solutions(prob, lpvars, {0}, 0..GapSlack) :
                        AgePenalty(sol) >= Cardinality(FreeRows)

\* an optimum where a group takes free persons of two ages, so that its gap
\* is below its total
C12_Witness ==
    /\ pc = "solve"
    /\ weights.age_balance_weight > 0
    /\ weights.abs_diff_age_penalty > 0
    /\ \E sol \in AgeOptima(prob, lpvars) :
        \E j \in GroupKeys :
            /\ sol.abs_diff_age[j] > 0
            /\ sol.abs_diff_age[j] < TotalCount(sol, j)
            /\ IsLargestAgeGap(sol, j, sol.abs_diff_age[j])

\* a feasible model for a roster where some age has no free person
C12_WitnessConstantPenalty ==
    /\ pc = "solve"
    /\ weights.age_balance_weight > 0
    /\ weights.abs_diff_age_penalty > 0
    /\ SomeAgeWithoutFree
    /\ Cardinality(FreeRows) >= 2
    /\ \E sol \in AgeOptima(prob, lpvars) :
        AgePenalty(sol) = Cardinality(FreeRows)

====
